---- MODULE Spec2Model ----
(***************************************************************************)
(* The mod-file parser of src/parser.go: a state machine of parse          *)
(* functions driven by a pull-based lexer.  A string or version value is   *)
(* a sequence of characters, so that unquote is computed and not assumed.  *)
(***************************************************************************)
EXTENDS Naturals, Sequences, FiniteSets, TLC

VARIABLES p, state, ret

vars == <<p, state, ret>>

(* Longest token stream the lexer hands out in one parse. *)
MaxTokens == 13

-----------------------------------------------------------------------------
(* Tokens.  The lexer is not part of parser.go; its token kinds are the    *)
(* ones parser.go names, its values follow the lexer's contract.           *)

Tok(k, v) == [kind |-> k, val |-> v]

tokenModule     == Tok("module",  <<"module">>)
tokenRequire    == Tok("require", <<"require">>)
tokenExclude    == Tok("exclude", <<"exclude">>)
tokenReplace    == Tok("replace", <<"replace">>)
tokenMapFun     == Tok("=>",      <<"=", ">">>)
tokenLeftParen  == Tok("(",       <<"(">>)
tokenRightParen == Tok(")",       <<")">>)
tokenNewline    == Tok("newline", <<"\n">>)
tokenEOF        == Tok("EOF",     <<>>)
tokenInvalid    == Tok("invalid", <<"?">>)

(* String literals keep their quotes: "a" and the empty "". *)
StringTokens  == { Tok("string", <<"\"", "a", "\"">>),
                   Tok("string", <<"\"", "\"">>) }
VersionTokens == { Tok("version", <<"v", "1">>),
                   Tok("version", <<"v", "2">>) }

Tokens == { tokenModule, tokenRequire, tokenExclude, tokenReplace, tokenMapFun,
            tokenLeftParen, tokenRightParen, tokenNewline, tokenEOF,
            tokenInvalid } \cup StringTokens \cup VersionTokens

-----------------------------------------------------------------------------
(* Optional values: nil is the empty sequence, a value v is <<v>>.         *)

Nil == <<>>

Some(v) == <<v>>

(* fmt.Errorf("expect <what>, got %s", t) *)
Errorf(what, t) == [expect |-> what, got |-> t]

(* f := &Module{} *)
EmptyModule == [Name |-> <<>>, Requires |-> <<>>, Excludes |-> <<>>,
                Replaces |-> <<>>]

Package(path, version) == [Path |-> path, Version |-> version]

PackageMap(from, to) == [From |-> from, To |-> to]

(* lex(input): a lexer at the start of its token stream. *)
lex(input) == [input |-> input, pos |-> 0]

(* p := &parser{lexer: l, file: f} *)
NewParser(input) == [lexer |-> lex(input), file |-> EmptyModule, err |-> Nil]

(* The token lexer.nextToken() returns next: the next one of the stream,   *)
(* and end-of-input again once the stream is exhausted.                    *)
peek(q) ==
    IF q.lexer.pos < Len(q.lexer.input)
    THEN q.lexer.input[q.lexer.pos + 1]
    ELSE tokenEOF

(* The parser after p.nextToken() returned peek(q). *)
nextToken(q) == [q EXCEPT !.lexer.pos = @ + 1]

(* What a parse function hands back: the parser and the next state. *)
Ret(q, next) == [p |-> q, next |-> next]

(* A state: a parse function and, for the list closures, the captured add. *)
Fn(name, add) == [fn |-> name, add |-> add]

(* An error that is recorded while the machine goes on in the verb loop. *)
errorGoesOn(q, err) == Ret([q EXCEPT !.err = Some(err)], Some(Fn("parseVerb", "")))

(* p.error(err): record the error, no next state. *)
error(q, err) == Ret([q EXCEPT !.err = Some(err)], Nil)

errorf(q, what, t) == error(q, Errorf(what, t))

unquote(s) == SubSeq(s, 2, Len(s) - 1)

requirePkg(q, pkg) == [q EXCEPT !.file.Requires = Append(@, pkg)]

(* An exclude that appends to the require list. *)
excludePkgIntoRequires(q, pkg) == [q EXCEPT !.file.Requires = Append(@, pkg)]

excludePkg(q, pkg) == [q EXCEPT !.file.Excludes = Append(@, pkg)]

replacePkg(q, m) == [q EXCEPT !.file.Replaces = Append(@, m)]

(* add(x): the call of the add method a list closure captured. *)
addPkg(add, q, pkg) ==
    CASE add = "requirePkg" -> requirePkg(q, pkg)
      [] add = "excludePkg" -> excludePkg(q, pkg)
      [] add = "replacePkg" -> replacePkg(q, pkg)

(* skipNewline: pull tokens until one is not a newline; t is that token,   *)
(* p the parser after pulling it.                                          *)
RECURSIVE skipNewline(_)
skipNewline(q) ==
    IF peek(q).kind = "newline"
    THEN skipNewline(nextToken(q))
    ELSE [t |-> peek(q), p |-> nextToken(q)]

(* readPkg(t, p): pkg or err, and the parser after the tokens it pulled. *)
readPkg(t, q) ==
    IF t.kind # "string"
    THEN [pkg |-> Nil, err |-> Some(Errorf("package declaration", t)), p |-> q]
    ELSE IF peek(q).kind # "version"
         THEN [pkg |-> Nil, err |-> Some(Errorf("package version", peek(q))),
               p |-> nextToken(q)]
         ELSE [pkg |-> Some(Package(unquote(t.val), peek(q).val)), err |-> Nil,
               p |-> nextToken(q)]

(* A mapping reader that takes any token for the arrow. *)
readPkgMapAnyArrow(t, q) ==
    LET old == readPkg(t, q) IN
    IF old.err # Nil THEN old
    ELSE LET q1  == nextToken(old.p)
             new == readPkg(peek(q1), nextToken(q1))
         IN IF new.err # Nil THEN new
            ELSE [pkg |-> Some(PackageMap(old.pkg[1], new.pkg[1])),
                  err |-> Nil, p |-> new.p]

readPkgMap(t, q) ==
    LET old == readPkg(t, q) IN
    IF old.err # Nil THEN old
    ELSE IF peek(old.p).kind # "=>"
         THEN [pkg |-> Nil, err |-> Some(Errorf("'=>'", peek(old.p))),
               p |-> nextToken(old.p)]
         ELSE LET q1  == nextToken(old.p)
                  new == readPkg(peek(q1), nextToken(q1))
              IN IF new.err # Nil THEN new
                 ELSE [pkg |-> Some(PackageMap(old.pkg[1], new.pkg[1])),
                       err |-> Nil, p |-> new.p]

-----------------------------------------------------------------------------
(* The parse functions.                                                    *)

(* A module state that takes a blank line before the keyword for an error. *)
parseModuleNoSkip(q) ==
    LET t == peek(q) IN
    CASE t.kind = "module"  -> Ret(nextToken(q), Some(Fn("parseModuleName", "")))
      [] OTHER              -> errorf(nextToken(q), "module declaration", t)

RECURSIVE parseModule(_)
parseModule(q) ==
    LET t == peek(q) IN
    CASE t.kind = "newline" -> parseModule(nextToken(q))
      [] t.kind = "module"  -> Ret(nextToken(q), Some(Fn("parseModuleName", "")))
      [] OTHER              -> errorf(nextToken(q), "module declaration", t)

(* A module name state that skips blank lines before the name. *)
parseModuleNameSkips(q) ==
    LET s  == skipNewline(q)
        t  == s.t
        q1 == s.p
    IN IF t.kind # "string"
       THEN errorf(q1, "module name", t)
       ELSE LET q2 == [q1 EXCEPT !.file.Name = unquote(t.val)] IN
            IF peek(q2).kind # "newline"
            THEN errorf(nextToken(q2), "newline", peek(q2))
            ELSE Ret(nextToken(q2), Some(Fn("parseVerb", "")))

parseModuleName(q) ==
    LET t  == peek(q)
        q1 == nextToken(q)
    IN IF t.kind # "string"
       THEN errorf(q1, "module name", t)
       ELSE LET q2 == [q1 EXCEPT !.file.Name = unquote(t.val)] IN
            IF peek(q2).kind # "newline"
            THEN errorf(nextToken(q2), "newline", peek(q2))
            ELSE Ret(nextToken(q2), Some(Fn("parseVerb", "")))

(* A verb loop that skips a module keyword as it skips a newline. *)
parseVerbSkipsModule(q) ==
    LET t  == peek(q)
        q1 == nextToken(q)
    IN CASE t.kind = "require" -> Ret(q1, Some(Fn("parsePkgList", "requirePkg")))
         [] t.kind = "exclude" -> Ret(q1, Some(Fn("parsePkgList", "excludePkg")))
         [] t.kind = "replace" -> Ret(q1, Some(Fn("parsePkgMapList", "replacePkg")))
         [] t.kind \in {"newline", "module"} -> Ret(q1, Some(Fn("parseVerb", "")))
         [] t.kind = "EOF"     -> Ret(q1, Nil)
         [] OTHER              -> errorf(q1, "verb declaration", t)

(* A verb loop that looks at a verb keyword and leaves it to the list state. *)
parseVerbPeeks(q) ==
    LET t  == peek(q)
        q1 == nextToken(q)
    IN CASE t.kind = "require" -> Ret(q, Some(Fn("parsePkgList", "requirePkg")))
         [] t.kind = "exclude" -> Ret(q, Some(Fn("parsePkgList", "excludePkg")))
         [] t.kind = "replace" -> Ret(q, Some(Fn("parsePkgMapList", "replacePkg")))
         [] t.kind = "newline" -> Ret(q1, Some(Fn("parseVerb", "")))
         [] t.kind = "EOF"     -> Ret(q1, Nil)
         [] OTHER              -> errorf(q1, "verb declaration", t)

(* A verb loop that takes a module keyword for a new module line. *)
parseVerbModuleAgain(q) ==
    LET t  == peek(q)
        q1 == nextToken(q)
    IN CASE t.kind = "require" -> Ret(q1, Some(Fn("parsePkgList", "requirePkg")))
         [] t.kind = "exclude" -> Ret(q1, Some(Fn("parsePkgList", "excludePkg")))
         [] t.kind = "replace" -> Ret(q1, Some(Fn("parsePkgMapList", "replacePkg")))
         [] t.kind = "newline" -> Ret(q1, Some(Fn("parseVerb", "")))
         [] t.kind = "module"  -> Ret(q1, Some(Fn("parseModuleName", "")))
         [] t.kind = "EOF"     -> Ret(q1, Nil)
         [] OTHER              -> errorf(q1, "verb declaration", t)

(* A verb loop that skips end-of-input as it skips a newline. *)
parseVerbEOFLoops(q) ==
    LET t  == peek(q)
        q1 == nextToken(q)
    IN CASE t.kind = "require" -> Ret(q1, Some(Fn("parsePkgList", "requirePkg")))
         [] t.kind = "exclude" -> Ret(q1, Some(Fn("parsePkgList", "excludePkg")))
         [] t.kind = "replace" -> Ret(q1, Some(Fn("parsePkgMapList", "replacePkg")))
         [] t.kind \in {"newline", "EOF"} -> Ret(q1, Some(Fn("parseVerb", "")))
         [] OTHER              -> errorf(q1, "verb declaration", t)

(* A verb loop that takes end-of-input for an error. *)
parseVerbEOFError(q) ==
    LET t  == peek(q)
        q1 == nextToken(q)
    IN CASE t.kind = "require" -> Ret(q1, Some(Fn("parsePkgList", "requirePkg")))
         [] t.kind = "exclude" -> Ret(q1, Some(Fn("parsePkgList", "excludePkg")))
         [] t.kind = "replace" -> Ret(q1, Some(Fn("parsePkgMapList", "replacePkg")))
         [] t.kind = "newline" -> Ret(q1, Some(Fn("parseVerb", "")))
         [] OTHER              -> errorf(q1, "verb declaration", t)

parseVerb(q) ==
    LET t  == peek(q)
        q1 == nextToken(q)
    IN CASE t.kind = "require" -> Ret(q1, Some(Fn("parsePkgList", "requirePkg")))
         [] t.kind = "exclude" -> Ret(q1, Some(Fn("parsePkgList", "excludePkg")))
         [] t.kind = "replace" -> Ret(q1, Some(Fn("parsePkgMapList", "replacePkg")))
         [] t.kind = "newline" -> Ret(q1, Some(Fn("parseVerb", "")))
         [] t.kind = "EOF"     -> Ret(q1, Nil)
         [] OTHER              -> errorf(q1, "verb declaration", t)

(* A list state that skips blank lines before an inline entry. *)
parsePkgListSkips(add, q) ==
    LET s  == skipNewline(q)
        t  == s.t
        q1 == s.p
    IN IF t.kind = "("
       THEN IF peek(q1).kind # "newline"
            THEN errorf(nextToken(q1), "newline", peek(q1))
            ELSE Ret(nextToken(q1), Some(Fn("parsePkgListElem", add)))
       ELSE LET r == readPkg(t, q1) IN
            IF r.err # Nil
            THEN error(r.p, r.err[1])
            ELSE IF peek(r.p).kind # "newline"
                 THEN errorf(nextToken(r.p), "newline", peek(r.p))
                 ELSE Ret(addPkg(add, nextToken(r.p), r.pkg[1]),
                          Some(Fn("parseVerb", "")))

(* A list state that takes end-of-input after the verb for a clean end. *)
parsePkgListEOFEnds(add, q) ==
    LET t  == peek(q)
        q1 == nextToken(q)
    IN IF t.kind = "EOF" THEN Ret(q1, Nil)
       ELSE IF t.kind = "("
       THEN IF peek(q1).kind # "newline"
            THEN errorf(nextToken(q1), "newline", peek(q1))
            ELSE Ret(nextToken(q1), Some(Fn("parsePkgListElem", add)))
       ELSE LET r == readPkg(t, q1) IN
            IF r.err # Nil
            THEN error(r.p, r.err[1])
            ELSE IF peek(r.p).kind # "newline"
                 THEN errorf(nextToken(r.p), "newline", peek(r.p))
                 ELSE Ret(addPkg(add, nextToken(r.p), r.pkg[1]),
                          Some(Fn("parseVerb", "")))

(* parsePkgList(add): the closure it returns, run on the parser q. *)
parsePkgList(add, q) ==
    LET t  == peek(q)
        q1 == nextToken(q)
    IN IF t.kind = "("
       THEN IF peek(q1).kind # "newline"
            THEN errorf(nextToken(q1), "newline", peek(q1))
            ELSE Ret(nextToken(q1), Some(Fn("parsePkgListElem", add)))
       ELSE LET r == readPkg(t, q1) IN
            IF r.err # Nil
            THEN error(r.p, r.err[1])
            ELSE IF peek(r.p).kind # "newline"
                 THEN errorf(nextToken(r.p), "newline", peek(r.p))
                 ELSE Ret(addPkg(add, nextToken(r.p), r.pkg[1]),
                          Some(Fn("parseVerb", "")))

(* A list element that adds the package before it looks for the newline. *)
parsePkgListElemAddsFirst(add, q) ==
    LET s == skipNewline(q) IN
    IF s.t.kind = ")"
    THEN IF peek(s.p).kind # "newline"
         THEN errorf(nextToken(s.p), "newline", peek(s.p))
         ELSE Ret(nextToken(s.p), Some(Fn("parseVerb", "")))
    ELSE LET r == readPkg(s.t, s.p) IN
         IF r.err # Nil
         THEN error(r.p, r.err[1])
         ELSE IF peek(r.p).kind # "newline"
              THEN errorf(addPkg(add, nextToken(r.p), r.pkg[1]), "newline", peek(r.p))
              ELSE Ret(addPkg(add, nextToken(r.p), r.pkg[1]),
                       Some(Fn("parsePkgListElem", add)))

(* A list element that takes end-of-input for the closing parenthesis. *)
parsePkgListElemEOFCloses(add, q) ==
    LET s == skipNewline(q) IN
    IF s.t.kind \in {")", "EOF"}
    THEN IF s.t.kind = ")" /\ peek(s.p).kind # "newline"
         THEN errorf(nextToken(s.p), "newline", peek(s.p))
         ELSE Ret(nextToken(s.p), Some(Fn("parseVerb", "")))
    ELSE LET r == readPkg(s.t, s.p) IN
         IF r.err # Nil
         THEN error(r.p, r.err[1])
         ELSE IF peek(r.p).kind # "newline"
              THEN errorf(nextToken(r.p), "newline", peek(r.p))
              ELSE Ret(addPkg(add, nextToken(r.p), r.pkg[1]),
                       Some(Fn("parsePkgListElem", add)))

parsePkgListElem(add, q) ==
    LET s == skipNewline(q) IN
    IF s.t.kind = ")"
    THEN IF peek(s.p).kind # "newline"
         THEN errorf(nextToken(s.p), "newline", peek(s.p))
         ELSE Ret(nextToken(s.p), Some(Fn("parseVerb", "")))
    ELSE LET r == readPkg(s.t, s.p) IN
         IF r.err # Nil
         THEN error(r.p, r.err[1])
         ELSE IF peek(r.p).kind # "newline"
              THEN errorf(nextToken(r.p), "newline", peek(r.p))
              ELSE Ret(addPkg(add, nextToken(r.p), r.pkg[1]),
                       Some(Fn("parsePkgListElem", add)))

parsePkgMapList(add, q) ==
    LET t  == peek(q)
        q1 == nextToken(q)
    IN IF t.kind = "("
       THEN IF peek(q1).kind # "newline"
            THEN errorf(nextToken(q1), "newline", peek(q1))
            ELSE Ret(nextToken(q1), Some(Fn("parsePkgMapListElem", add)))
       ELSE LET r == readPkgMap(t, q1) IN
            IF r.err # Nil
            THEN error(r.p, r.err[1])
            ELSE IF peek(r.p).kind # "newline"
                 THEN errorf(nextToken(r.p), "newline", peek(r.p))
                 ELSE Ret(addPkg(add, nextToken(r.p), r.pkg[1]),
                          Some(Fn("parseVerb", "")))

(* A mapping list element that reads its line and drops the mapping. *)
parsePkgMapListElemDrops(add, q) ==
    LET t  == peek(q)
        q1 == nextToken(q)
    IN IF t.kind = ")"
       THEN IF peek(q1).kind # "newline"
            THEN errorf(nextToken(q1), "newline", peek(q1))
            ELSE Ret(nextToken(q1), Some(Fn("parseVerb", "")))
       ELSE LET r == readPkgMap(t, q1) IN
            IF r.err # Nil
            THEN error(r.p, r.err[1])
            ELSE IF peek(r.p).kind # "newline"
                 THEN errorf(nextToken(r.p), "newline", peek(r.p))
                 ELSE Ret(nextToken(r.p), Some(Fn("parsePkgMapListElem", add)))

parsePkgMapListElem(add, q) ==
    LET t  == peek(q)
        q1 == nextToken(q)
    IN IF t.kind = ")"
       THEN IF peek(q1).kind # "newline"
            THEN errorf(nextToken(q1), "newline", peek(q1))
            ELSE Ret(nextToken(q1), Some(Fn("parseVerb", "")))
       ELSE LET r == readPkgMap(t, q1) IN
            IF r.err # Nil
            THEN error(r.p, r.err[1])
            ELSE IF peek(r.p).kind # "newline"
                 THEN errorf(nextToken(r.p), "newline", peek(r.p))
                 ELSE Ret(addPkg(add, nextToken(r.p), r.pkg[1]),
                          Some(Fn("parsePkgMapListElem", add)))

(* state(p): the call of the current parse function. *)
call(st, q) ==
    CASE st.fn = "parseModule"         -> parseModule(q)
      [] st.fn = "parseModuleName"     -> parseModuleName(q)
      [] st.fn = "parseVerb"           -> parseVerb(q)
      [] st.fn = "parsePkgList"        -> parsePkgList(st.add, q)
      [] st.fn = "parsePkgListElem"    -> parsePkgListElem(st.add, q)
      [] st.fn = "parsePkgMapList"     -> parsePkgMapList(st.add, q)
      [] st.fn = "parsePkgMapListElem" -> parsePkgMapListElem(st.add, q)

(* A return that hands out the module under construction with the error. *)
resultPartial(q) == [doc |-> Some(q.file), err |-> q.err]

(* The return of Parse: the module or the error, never both. *)
result(q) ==
    IF q.err # Nil
    THEN [doc |-> Nil, err |-> q.err]
    ELSE [doc |-> Some(q.file), err |-> Nil]

(* for state := parseModule; state != nil; { state = state(p) } *)
RECURSIVE loop(_, _)
loop(st, q) ==
    IF st = Nil THEN q
    ELSE LET r == call(st[1], q) IN loop(r.next, r.p)

(* The states the loop of Parse goes through from state st, in order. *)
RECURSIVE states(_, _)
states(st, q) ==
    IF st = Nil THEN <<>>
    ELSE LET r == call(st[1], q) IN <<st[1]>> \o states(r.next, r.p)

(* The parser when the state loop of Parse(input) has ended. *)
run(input) == loop(Some(Fn("parseModule", "")), NewParser(input))

(* Parse(input) *)
Parse(input) == result(run(input))

-----------------------------------------------------------------------------
(* The lexer is pulled on demand: lexer.input holds the tokens lexed so    *)
(* far, and a parse function runs on the tokens the lexer hands it.        *)

(* The lexer can hand out t after the tokens s: it repeats end-of-input    *)
(* once it has returned it.                                                *)
LexerCan(s, t) == s = <<>> \/ s[Len(s)].kind # "EOF" \/ t = tokenEOF

(* The parser q with the tokens w lexed next. *)
Fed(q, w) == [q EXCEPT !.lexer.input = @ \o w]

(* State st asks for more tokens than w when the lexer hands it w. *)
Starved(st, q, w) == call(st, Fed(q, w)).p.lexer.pos > Len(q.lexer.input) + Len(w)

(* The runs of n tokens that st pulls, all but the last, and then asks on. *)
RECURSIVE Windows(_, _, _)
Windows(st, q, n) ==
    IF n = 0 THEN { <<>> }
    ELSE UNION { { Append(w, t) : t \in { u \in Tokens : LexerCan(q.lexer.input \o w, u) } } :
                 w \in { x \in Windows(st, q, n - 1) : Starved(st, q, x) } }

(* The runs of tokens that st pulls from the lexer, to the last token. *)
Pulls(st, q) ==
    UNION { { w \in Windows(st, q, n) : ~Starved(st, q, w) } :
            n \in 0..(MaxTokens - Len(q.lexer.input)) }

-----------------------------------------------------------------------------
(* The state machine: p is the parser, state the next parse function (nil  *)
(* when the loop has ended), ret what Parse returned (nil while it runs).  *)

Init ==
    /\ p = NewParser(<<>>)
    /\ state = Some(Fn("parseModule", ""))
    /\ ret = Nil

(* One turn of the loop of Parse, state = state(p), for each parse function, *)
(* on the tokens w that the lexer hands it.                                 *)

ParseModule ==
    /\ ret = Nil
    /\ state # Nil
    /\ state[1].fn = "parseModule"
    /\ \E w \in Pulls(state[1], p) :
         LET r == parseModule(Fed(p, w)) IN
           /\ p' = r.p
           /\ state' = r.next
    /\ UNCHANGED ret

ParseModuleName ==
    /\ ret = Nil
    /\ state # Nil
    /\ state[1].fn = "parseModuleName"
    /\ \E w \in Pulls(state[1], p) :
         LET r == parseModuleName(Fed(p, w)) IN
           /\ p' = r.p
           /\ state' = r.next
    /\ UNCHANGED ret

ParseVerb ==
    /\ ret = Nil
    /\ state # Nil
    /\ state[1].fn = "parseVerb"
    /\ \E w \in Pulls(state[1], p) :
         LET r == parseVerb(Fed(p, w)) IN
           /\ p' = r.p
           /\ state' = r.next
    /\ UNCHANGED ret

ParsePkgList ==
    /\ ret = Nil
    /\ state # Nil
    /\ state[1].fn = "parsePkgList"
    /\ \E w \in Pulls(state[1], p) :
         LET r == parsePkgList(state[1].add, Fed(p, w)) IN
           /\ p' = r.p
           /\ state' = r.next
    /\ UNCHANGED ret

ParsePkgListElem ==
    /\ ret = Nil
    /\ state # Nil
    /\ state[1].fn = "parsePkgListElem"
    /\ \E w \in Pulls(state[1], p) :
         LET r == parsePkgListElem(state[1].add, Fed(p, w)) IN
           /\ p' = r.p
           /\ state' = r.next
    /\ UNCHANGED ret

ParsePkgMapList ==
    /\ ret = Nil
    /\ state # Nil
    /\ state[1].fn = "parsePkgMapList"
    /\ \E w \in Pulls(state[1], p) :
         LET r == parsePkgMapList(state[1].add, Fed(p, w)) IN
           /\ p' = r.p
           /\ state' = r.next
    /\ UNCHANGED ret

ParsePkgMapListElem ==
    /\ ret = Nil
    /\ state # Nil
    /\ state[1].fn = "parsePkgMapListElem"
    /\ \E w \in Pulls(state[1], p) :
         LET r == parsePkgMapListElem(state[1].add, Fed(p, w)) IN
           /\ p' = r.p
           /\ state' = r.next
    /\ UNCHANGED ret

(* The loop has ended: Parse returns. *)
Return ==
    /\ ret = Nil
    /\ state = Nil
    /\ ret' = Some(result(p))
    /\ UNCHANGED <<p, state>>

Next ==
    \/ ParseModule
    \/ ParseModuleName
    \/ ParseVerb
    \/ ParsePkgList
    \/ ParsePkgListElem
    \/ ParsePkgMapList
    \/ ParsePkgMapListElem
    \/ Return

Spec == Init /\ [][Next]_vars

-----------------------------------------------------------------------------
(* Properties.                                                             *)

(* Parse has returned. *)
Returned == ret # Nil

(* The tokens pulled so far, and the tokens one turn of the loop pulls. *)
Input == p.lexer.input

Pulled == SubSeq(p'.lexer.input, p.lexer.pos + 1, p'.lexer.pos)

Kinds(w) == [i \in 1..Len(w) |-> w[i].kind]

VerbLoop == Some(Fn("parseVerb", ""))

(* C1: Parse returns exactly one of a Document and an error: the error    *)
(* and no Document whenever an error was recorded, whatever was appended   *)
(* to the Document before; the Document built and no error otherwise.      *)
C1_DocumentOrError ==
    Returned =>
      /\ (ret[1].doc = Nil) # (ret[1].err = Nil)
      /\ p.err # Nil => ret[1].doc = Nil /\ ret[1].err = p.err
      /\ p.err = Nil => ret[1].doc = Some(p.file)

(* Parse returned an error after an entry was appended. *)
C1_Witness ==
    /\ Returned
    /\ p.err # Nil
    /\ p.file.Requires # <<>>
    /\ ret[1].doc = Nil

(* C7: in the verb loop a token that is not require, exclude, replace,     *)
(* newline or end-of-input ends the parse with the error "expect verb      *)
(* declaration" on that token, the Document untouched.                     *)
C7_VerbExpected ==
    [][ (state = VerbLoop /\ ret = Nil /\
         Pulled[1].kind \notin {"require", "exclude", "replace", "newline", "EOF"})
        => /\ state' = Nil
           /\ p'.err = Some(Errorf("verb declaration", Pulled[1]))
           /\ p'.file = p.file ]_vars

(* A second module keyword after a completed declaration was rejected. *)
C7_Witness ==
    /\ Returned
    /\ p.file.Excludes # <<>>
    /\ ret[1].err = Some(Errorf("verb declaration", tokenModule))

(* C9: end-of-input pulled in the verb loop ends the parse without error   *)
(* and Parse returns the Document accumulated so far; a module line and    *)
(* nothing else yields the name and three empty lists.                     *)
C9_CleanEnd ==
    /\ [][ (state = VerbLoop /\ ret = Nil /\ Pulled[1].kind = "EOF")
           => /\ state' = Nil
              /\ p'.err = Nil
              /\ p'.file = p.file ]_vars
    /\ [][ (state = Nil /\ ret = Nil /\ p.err = Nil)
           => ret' = Some([doc |-> Some(p.file), err |-> Nil]) ]_vars
    /\ [](Returned /\ Kinds(Input) = <<"module", "string", "newline", "EOF">>
          => ret[1] = [doc |-> Some([Name |-> unquote(Input[2].val),
                                     Requires |-> <<>>, Excludes |-> <<>>,
                                     Replaces |-> <<>>]),
                       err |-> Nil])

(* Parse returned the Document of a module line and nothing else. *)
C9_Witness ==
    /\ Returned
    /\ Kinds(Input) = <<"module", "string", "newline", "EOF">>
    /\ ret[1].doc = Some([Name |-> <<"a">>, Requires |-> <<>>,
                          Excludes |-> <<>>, Replaces |-> <<>>])

(* C10: a Document Parse returns has a non-empty name, non-empty paths in  *)
(* requires and excludes, and non-empty paths and versions on both sides   *)
(* of every mapping in replaces.                                           *)
C10_NonEmpty ==
    (Returned /\ ret[1].doc # Nil) =>
      LET f == ret[1].doc[1] IN
      /\ f.Name # <<>>
      /\ \A i \in 1..Len(f.Requires) : f.Requires[i].Path # <<>>
      /\ \A i \in 1..Len(f.Excludes) : f.Excludes[i].Path # <<>>
      /\ \A i \in 1..Len(f.Replaces) :
           /\ f.Replaces[i].From.Path # <<>> /\ f.Replaces[i].From.Version # <<>>
           /\ f.Replaces[i].To.Path # <<>> /\ f.Replaces[i].To.Version # <<>>

(* The token kinds of a package line and of a mapping line, without the  *)
(* newline that ends them.                                                 *)
PkgLine == <<"string", "version">>

MapLine == <<"string", "version", "=>", "string", "version">>

LineOf(add) == IF add = "replacePkg" THEN MapLine ELSE PkgLine

ListFns == {"parsePkgList", "parsePkgListElem", "parsePkgMapList",
            "parsePkgMapListElem"}

ElemFns == {"parsePkgListElem", "parsePkgMapListElem"}

VerbKinds == {"require", "exclude", "replace"}

(* One turn of the loop is taken in one of the states fns. *)
In(fns) == ret = Nil /\ state # Nil /\ state[1].fn \in fns

(* w begins with the token kinds k. *)
Begins(w, k) == Len(w) >= Len(k) /\ SubSeq(Kinds(w), 1, Len(k)) = k

RECURSIVE DropNewlines(_)
DropNewlines(w) ==
    IF w # <<>> /\ w[1].kind = "newline" THEN DropNewlines(Tail(w)) ELSE w

(* The mapping a mapping line w declares. *)
MappingOf(w) ==
    [From |-> [Path |-> SubSeq(w[1].val, 2, Len(w[1].val) - 1), Version |-> w[2].val],
     To   |-> [Path |-> SubSeq(w[4].val, 2, Len(w[4].val) - 1), Version |-> w[5].val]]

(* C5: a replace line, inline or in a block, appends a mapping exactly     *)
(* when it is string, version, '=>', string, version, newline, and then    *)
(* the one mapping {from: (path1, version1), to: (path2, version2)}; a     *)
(* token other than '=>' after the first package fails with the error      *)
(* "expect '=>'", a missing destination version fails too, and neither     *)
(* appends a mapping.                                                      *)
C5_ReplaceLine ==
    [][ (In(ListFns) /\ state[1].add = "replacePkg") =>
        LET w == Pulled IN
        /\ (p'.file.Replaces # p.file.Replaces \/ Begins(w, MapLine \o <<"newline">>))
           => /\ Kinds(w) = MapLine \o <<"newline">>
              /\ p'.file = [p.file EXCEPT !.Replaces = Append(@, MappingOf(w))]
              /\ p'.err = Nil
        /\ (Begins(w, PkgLine) /\ Len(w) > 2 /\ w[3].kind # "=>")
           => /\ state' = Nil
              /\ p'.err = Some(Errorf("'=>'", w[3]))
              /\ p'.file = p.file
        /\ (Begins(w, <<"string", "version", "=>", "string">>) /\ Len(w) > 4
              /\ w[5].kind # "version")
           => /\ state' = Nil
              /\ p'.err # Nil
              /\ p'.file = p.file ]_vars

(* A line of a replace block appended its mapping, the two sides differing. *)
C5_Witness ==
    /\ state = Some(Fn("parsePkgMapListElem", "replacePkg"))
    /\ Len(p.file.Replaces) = 1
    /\ p.file.Replaces[1].From.Path # p.file.Replaces[1].To.Path
    /\ p.file.Replaces[1].From.Version # p.file.Replaces[1].To.Version

(* C6: a package or mapping line, inline or in a block, whose last token   *)
(* is followed by anything but a newline, end-of-input included, fails     *)
(* with an error and appends nothing.                                      *)
C6_NewlineRequired ==
    [][ In(ListFns) =>
        LET b == DropNewlines(Pulled)
            n == Len(LineOf(state[1].add))
        IN (Begins(b, LineOf(state[1].add)) /\ Len(b) > n /\ b[n + 1].kind # "newline")
           => /\ state' = Nil
              /\ p'.err = Some(Errorf("newline", b[n + 1]))
              /\ p'.file = p.file ]_vars

(* The second line of a block ran into end-of-input after its version. *)
C6_Witness ==
    /\ Returned
    /\ ret[1].err = Some(Errorf("newline", tokenEOF))
    /\ Begins(Input, <<"module", "string", "newline", "require", "(">>)
    /\ Input[Len(Input) - 1].kind = "version"
    /\ Len(p.file.Requires) = 1

(* C8: inside a block, from the '(' on, end-of-input or a verb keyword     *)
(* ends the parse with an error that reports that token; a block leads     *)
(* back to the verb loop only by pulling ')' and a newline.                *)
C8_BlockClosed ==
    [][ (In(ElemFns) \/ (In(ListFns) /\ Pulled[1].kind = "(")) =>
        LET w == Pulled IN
        /\ \A i \in 1..Len(w) :
             w[i].kind \in VerbKinds \cup {"EOF"}
             => /\ i = Len(w)
                /\ state' = Nil
                /\ p'.err # Nil
                /\ p'.err[1].got = w[i]
        /\ state' = VerbLoop
           => /\ state[1].fn \in ElemFns
              /\ Len(w) >= 2
              /\ SubSeq(Kinds(w), Len(w) - 1, Len(w)) = <<")", "newline">>
        /\ state' \in {Nil, VerbLoop, Some(Fn("parsePkgListElem", state[1].add)),
                       Some(Fn("parsePkgMapListElem", state[1].add))} ]_vars

(* A block with an entry, never closed, ran into the next verb keyword. *)
C8_Witness ==
    /\ Returned
    /\ ret[1].err = Some(Errorf("package declaration", tokenReplace))
    /\ Begins(Input, <<"module", "string", "newline", "exclude", "(">>)
    /\ Len(p.file.Excludes) = 1
    /\ \A i \in 1..Len(Input) : Input[i].kind # ")"

(* The grammar of the mod file, read line by line and apart from the      *)
(* parser: the lines a mode allows, the mode a line leads to, what a line  *)
(* declares.  Blank lines are allowed inside the blocks of the verbs in    *)
(* blanks.                                                                 *)
AllVerbs == {"require", "exclude", "replace"}

PkgVerbs == {"require", "exclude"}

GLines(mode, blanks) ==
    CASE mode = "start" -> { <<>>, <<"module", "string">> }
      [] mode = "top" ->
           { <<>>, <<"replace">> \o MapLine, <<"replace", "(">> }
           \cup { <<v>> \o PkgLine : v \in PkgVerbs }
           \cup { <<v, "(">> : v \in PkgVerbs }
      [] mode \in PkgVerbs ->
           { PkgLine, <<")">> } \cup (IF mode \in blanks THEN { <<>> } ELSE {})
      [] mode = "replace" ->
           { MapLine, <<")">> } \cup (IF mode \in blanks THEN { <<>> } ELSE {})
      [] OTHER -> {}

GAfter(mode, k) ==
    CASE mode = "start" -> IF k = <<>> THEN "start" ELSE "top"
      [] mode = "top"   -> IF Len(k) = 2 THEN k[1] ELSE "top"
      [] OTHER          -> IF k = <<")">> THEN "top" ELSE mode

Strip(v) == SubSeq(v, 2, Len(v) - 1)

PackageOf(w) == [Path |-> Strip(w[1].val), Version |-> w[2].val]

GEntry(verb, w) == IF verb = "replace" THEN MappingOf(w) ELSE PackageOf(w)

GAdd(doc, verb, e) ==
    CASE verb = "require" -> [doc EXCEPT !.Requires = Append(@, e)]
      [] verb = "exclude" -> [doc EXCEPT !.Excludes = Append(@, e)]
      [] verb = "replace" -> [doc EXCEPT !.Replaces = Append(@, e)]

(* The Document after the line cur, read in mode. *)
GDeclare(doc, mode, cur) ==
    CASE mode = "start" /\ cur # <<>> -> [doc EXCEPT !.Name = Strip(cur[2].val)]
      [] mode = "top" /\ Len(cur) > 2 -> GAdd(doc, cur[1].kind, GEntry(cur[1].kind, Tail(cur)))
      [] mode \in AllVerbs /\ Len(cur) > 1 -> GAdd(doc, mode, GEntry(mode, cur))
      [] OTHER -> doc

IsPrefix(a, b) == Len(a) <= Len(b) /\ SubSeq(b, 1, Len(a)) = a

GBad(g) == [g EXCEPT !.mode = "bad"]

(* The reading g of the grammar after one more token t. *)
GStep(g, t, blanks) ==
    IF g.mode \in {"bad", "end"} THEN GBad(g)
    ELSE IF t.kind = "newline"
    THEN IF Kinds(g.cur) \in GLines(g.mode, blanks)
         THEN [mode |-> GAfter(g.mode, Kinds(g.cur)), cur |-> <<>>,
               doc |-> GDeclare(g.doc, g.mode, g.cur)]
         ELSE GBad(g)
    ELSE IF t.kind = "EOF"
    THEN IF g.mode = "top" /\ g.cur = <<>> THEN [g EXCEPT !.mode = "end"] ELSE GBad(g)
    ELSE IF \E l \in GLines(g.mode, blanks) : IsPrefix(Kinds(Append(g.cur, t)), l)
         THEN [g EXCEPT !.cur = Append(@, t)]
         ELSE GBad(g)

RECURSIVE GRead(_, _, _)
GRead(s, n, blanks) ==
    IF n = 0
    THEN [mode |-> "start", cur |-> <<>>,
          doc |-> [Name |-> <<>>, Requires |-> <<>>, Excludes |-> <<>>,
                   Replaces |-> <<>>]]
    ELSE GStep(GRead(s, n - 1, blanks), s[n], blanks)

(* s begins a syntactically valid input; s is one, to its end-of-input. *)
ValidPrefix(s, blanks) == GRead(s, Len(s), blanks).mode # "bad"

Valid(s, blanks) == GRead(s, Len(s), blanks).mode = "end"

Declared(s, blanks) == GRead(s, Len(s), blanks).doc

(* C2: for a syntactically valid input Parse succeeds, and Requires,       *)
(* Excludes and Replaces hold the declared entries of their verb in file   *)
(* order, duplicates kept, paths unquoted and versions verbatim.  Parse    *)
(* stops at the token it fails on, so it fails on no valid input exactly   *)
(* when the tokens pulled at a failure begin no valid input.               *)
C2_RoundTrip ==
    (Returned /\ ValidPrefix(Input, AllVerbs))
    => ret[1] = [doc |-> Some(Declared(Input, AllVerbs)), err |-> Nil]

(* The same with blank lines allowed in require and exclude blocks only. *)
RoundTripNoBlankInReplaceBlock ==
    (Returned /\ ValidPrefix(Input, PkgVerbs))
    => /\ Valid(Input, PkgVerbs)
       /\ ret[1] = [doc |-> Some(Declared(Input, PkgVerbs)), err |-> Nil]

(* Parse succeeds on valid inputs only. *)
AcceptsValidOnly ==
    (Returned /\ ret[1].err = Nil) => Valid(Input, PkgVerbs)

(* The input is a module line and one inline declaration of verb. *)
InlineSingle(s, verb) ==
    Kinds(s) = <<"module", "string", "newline", verb>>
               \o (IF verb = "replace" THEN MapLine ELSE PkgLine)
               \o <<"newline", "EOF">>

(* The same declaration as the only line of a block. *)
BlockForm(s) ==
    SubSeq(s, 1, 4) \o <<tokenLeftParen, tokenNewline>>
    \o SubSeq(s, 5, Len(s) - 1) \o <<tokenRightParen, tokenNewline, tokenEOF>>

(* C3: for each verb, one entry declared inline and the same entry as the  *)
(* only line of a block both parse, to equal Documents with exactly one    *)
(* entry, in that verb's list.                                             *)
C3_InlineEqualsBlock ==
    \A verb \in AllVerbs :
      (Returned /\ InlineSingle(Input, verb)) =>
        /\ ret[1].err = Nil
        /\ Parse(BlockForm(Input)) = ret[1]
        /\ LET f == ret[1].doc[1] IN
             /\ Len(f.Requires) = (IF verb = "require" THEN 1 ELSE 0)
             /\ Len(f.Excludes) = (IF verb = "exclude" THEN 1 ELSE 0)
             /\ Len(f.Replaces) = (IF verb = "replace" THEN 1 ELSE 0)

(* An inline replace was parsed, and its block form yields one mapping. *)
C3_Witness ==
    /\ Returned
    /\ InlineSingle(Input, "replace")
    /\ Parse(BlockForm(Input)).doc # Nil
    /\ Len(Parse(BlockForm(Input)).doc[1].Replaces) = 1

(* s with the token t put in before its i-th token. *)
InsertAt(s, i, t) == SubSeq(s, 1, i - 1) \o <<t>> \o SubSeq(s, i, Len(s))

(* The line starts of s inside a block: before an entry, a blank line or   *)
(* the closing ')'.                                                        *)
BlockLineStarts(s) ==
    { i \in 2..Len(s) :
        /\ s[i - 1].kind = "newline"
        /\ \E j \in 1..(i - 1) :
             /\ s[j].kind = "("
             /\ \A k \in (j + 1)..(i - 1) : s[k].kind # ")" }

(* The verb of the block that the i-th token of s is in. *)
BlockVerbAt(s, i) ==
    LET j == CHOOSE j \in 1..(i - 1) :
               /\ s[j].kind = "("
               /\ \A k \in (j + 1)..(i - 1) : s[k].kind # ")"
    IN s[j - 1].kind

(* C4: in a block of any verb a blank line more before an entry, between   *)
(* entries or before the closing ')' is skipped: the parse succeeds with   *)
(* the same Document.  One blank line more at a time gives any number.     *)
C4_BlankLinesSkipped ==
    (Returned /\ ret[1].err = Nil) =>
      \A i \in BlockLineStarts(Input) :
        Parse(InsertAt(Input, i, tokenNewline)) = ret[1]

(* The same in the blocks of require and exclude only. *)
BlankLinesSkippedInPackageBlocks ==
    (Returned /\ ret[1].err = Nil) =>
      \A i \in BlockLineStarts(Input) :
        BlockVerbAt(Input, i) \in PkgVerbs
        => Parse(InsertAt(Input, i, tokenNewline)) = ret[1]

(* In a replace block the blank line is an error on the newline token. *)
BlankLineInReplaceBlockFails ==
    (Returned /\ ret[1].err = Nil) =>
      \A i \in BlockLineStarts(Input) :
        BlockVerbAt(Input, i) = "replace"
        => Parse(InsertAt(Input, i, tokenNewline))
             = [doc |-> Nil, err |-> Some(Errorf("package declaration", tokenNewline))]

(* C11: before the module keyword newline tokens are skipped and change   *)
(* nothing in what Parse returns; any other token there, end-of-input      *)
(* included, ends the parse with the error "expect module declaration".    *)
C11_ModuleExpected ==
    /\ [][ In({"parseModule"}) =>
           LET w    == Pulled
               last == w[Len(w)]
           IN /\ Len(w) >= 1
              /\ \A i \in 1..(Len(w) - 1) : w[i].kind = "newline"
              /\ p'.file = p.file
              /\ IF last.kind = "module"
                 THEN state' = Some(Fn("parseModuleName", "")) /\ p'.err = Nil
                 ELSE /\ last.kind # "newline"
                      /\ state' = Nil
                      /\ p'.err = Some(Errorf("module declaration", last)) ]_vars
    /\ [](Returned => Parse(DropNewlines(Input)) = ret[1])

(* Blank lines came before the module line of a parse that succeeded. *)
C11_Witness ==
    /\ Returned
    /\ Begins(Input, <<"newline", "newline", "module">>)
    /\ ret[1].doc # Nil
    /\ ret[1].doc[1].Requires # <<>>

(* C12: after the module keyword the next token must be a string and the   *)
(* one after it a newline; any other token in either place, end-of-input   *)
(* after the name or a newline before it included, ends the parse with an  *)
(* error, and the verb loop is entered only through module, string,        *)
(* newline.                                                                *)
C12_ModuleLine ==
    /\ [][ In({"parseModuleName"}) =>
           LET w == Pulled IN
           /\ w[1].kind # "string"
              => /\ Len(w) = 1
                 /\ state' = Nil
                 /\ p'.err = Some(Errorf("module name", w[1]))
                 /\ p'.file = p.file
           /\ (w[1].kind = "string" /\ w[2].kind # "newline")
              => /\ Len(w) = 2
                 /\ state' = Nil
                 /\ p'.err = Some(Errorf("newline", w[2]))
           /\ state' # Nil
              => /\ state' = VerbLoop
                 /\ Kinds(w) = <<"string", "newline">>
                 /\ p'.err = Nil ]_vars
    /\ [][ (ret = Nil /\ state # Nil /\ state[1].fn = "parseModule" /\ state' # Nil)
           => state' = Some(Fn("parseModuleName", "")) ]_vars
    /\ []((state # Nil /\ state[1].fn \notin {"parseModule", "parseModuleName"})
          => Begins(DropNewlines(Input), <<"module", "string", "newline">>))

(* End-of-input came right after the module name. *)
C12_Witness ==
    /\ Returned
    /\ Kinds(Input) = <<"module", "string", "EOF">>
    /\ ret[1] = [doc |-> Nil, err |-> Some(Errorf("newline", tokenEOF))]

(* One turn of the loop is taken. *)
Turn == ret = Nil /\ state # Nil

Lists(f) == <<f.Requires, f.Excludes, f.Replaces>>

(* C14: the turn that records an error hands back no next state, its last  *)
(* token pulled is the one the error is about, and it appends no entry;    *)
(* from then on no token is pulled, nothing is appended and the error is   *)
(* not written again.                                                      *)
C14_HaltOnError ==
    /\ [][ (Turn /\ p'.err # Nil)
           => /\ p.err = Nil
              /\ state' = Nil
              /\ Pulled # <<>>
              /\ p'.err[1].got = Pulled[Len(Pulled)]
              /\ Lists(p'.file) = Lists(p.file) ]_vars
    /\ [][ p.err # Nil => p' = p /\ state' = Nil ]_vars
    /\ [](p.err # Nil => state = Nil)

(* Parse returned an error recorded after a mapping was appended. *)
C14_Witness ==
    /\ Returned
    /\ ret[1].err # Nil
    /\ p.err = ret[1].err
    /\ Len(p.file.Replaces) = 1
    /\ state = Nil

(* The states Parse goes through on the tokens s. *)
StatesOn(s) == states(Some(Fn("parseModule", "")), NewParser(s))

(* C15: every turn of the loop pulls at least one token, and the turn that *)
(* pulls end-of-input is the last; so Parse returns after no more turns    *)
(* than it has pulled tokens, plus one, and in every state the machine is  *)
(* in, a stream that ends there ends the parse in that turn.               *)
C15_Terminates ==
    /\ [][ Turn => p'.lexer.pos > p.lexer.pos ]_vars
    /\ [][ (Turn /\ \E i \in 1..Len(Pulled) : Pulled[i].kind = "EOF")
           => state' = Nil ]_vars
    /\ [](Returned => Len(StatesOn(Input)) <= Len(Input) + 1)
    /\ [](Turn => /\ ~Starved(state[1], p, <<tokenEOF>>)
                   /\ call(state[1], Fed(p, <<tokenEOF>>)).next = Nil)

(* Parse returned after as many turns as tokens: a module line, blank      *)
(* lines in the verb loop, end-of-input.                                   *)
C15_Witness ==
    /\ Returned
    /\ ret[1].err = Nil
    /\ Len(Input) >= 6
    /\ Len(StatesOn(Input)) = Len(Input) - 1

(* C16: end-of-input pulled in any state but the verb loop ends the parse  *)
(* with an error on that token; Parse succeeds exactly when the verb loop  *)
(* pulls end-of-input.                                                     *)
C16_EOFElsewhereFails ==
    /\ [][ Turn =>
           \A i \in 1..Len(Pulled) :
             Pulled[i].kind = "EOF"
             => /\ i = Len(Pulled)
                /\ state' = Nil
                /\ IF state = VerbLoop
                   THEN p'.err = Nil
                   ELSE p'.err # Nil /\ p'.err[1].got = tokenEOF ]_vars
    /\ [][ (Turn /\ state' = Nil /\ p'.err = Nil)
           => state = VerbLoop /\ Pulled = <<tokenEOF>> ]_vars
    /\ [](Returned =>
            (ret[1].err = Nil
             <=> /\ Input # <<>>
                 /\ Input[Len(Input)] = tokenEOF
                 /\ StatesOn(Input)[Len(StatesOn(Input))] = Fn("parseVerb", "")))

(* End-of-input came in the middle of a mapping line, after the arrow and  *)
(* the destination path.                                                   *)
C16_Witness ==
    /\ Returned
    /\ ret[1] = [doc |-> Nil, err |-> Some(Errorf("package version", tokenEOF))]
    /\ Len(Input) > 2
    /\ Input[Len(Input) - 2].kind = "=>"

(* The list l1 is l, or l with one element more at its end. *)
SameOrAppended(l, l1) ==
    \/ l1 = l
    \/ Len(l1) = Len(l) + 1 /\ SubSeq(l1, 1, Len(l)) = l

(* C17: the Document starts empty; a step leaves each of its lists as it   *)
(* is or appends one element to it; a require declaration changes only     *)
(* Requires, an exclude declaration only Excludes, a replace declaration   *)
(* only Replaces, and none of them the Name.                               *)
C17_AppendOnly ==
    /\ [](p.lexer.pos = 0 => p.file = EmptyModule)
    /\ [][ /\ SameOrAppended(p.file.Requires, p'.file.Requires)
           /\ SameOrAppended(p.file.Excludes, p'.file.Excludes)
           /\ SameOrAppended(p.file.Replaces, p'.file.Replaces) ]_vars
    /\ [][ Turn =>
           LET f == p.file
               g == p'.file
           IN CASE state[1].add = "requirePkg" ->
                     g = [f EXCEPT !.Requires = g.Requires]
                [] state[1].add = "excludePkg" ->
                     g = [f EXCEPT !.Excludes = g.Excludes]
                [] state[1].add = "replacePkg" ->
                     g = [f EXCEPT !.Replaces = g.Replaces]
                [] state[1].fn = "parseModuleName" -> Lists(g) = Lists(f)
                [] OTHER -> g = f ]_vars
    /\ [][ ~Turn => p'.file = p.file ]_vars

(* A require and an exclude declaration each appended to its own list. *)
C17_Witness ==
    /\ Len(p.file.Requires) = 1
    /\ Len(p.file.Excludes) = 1
    /\ p.file.Replaces = <<>>
    /\ p.file.Name = <<"a">>

(* How often Parse is in the module name state on the tokens s. *)
NameTurns(s) ==
    LET t == StatesOn(s) IN
    Cardinality({ i \in 1..Len(t) : t[i].fn = "parseModuleName" })

(* C18: the name is assigned only by the module name state, which a run    *)
(* is in at most once and a successful run exactly once; once the verb     *)
(* loop is reached the name does not change, a second module keyword       *)
(* there being an error.                                                   *)
C18_NameOnce ==
    /\ [][ p'.file.Name # p.file.Name
           => Turn /\ state[1].fn = "parseModuleName" ]_vars
    /\ [][ (Turn /\ state' # Nil)
           => /\ state'[1].fn # "parseModule"
              /\ state'[1].fn = "parseModuleName" => state[1].fn = "parseModule" ]_vars
    /\ [][ (Turn /\ state = VerbLoop /\ Pulled[1].kind = "module")
           => state' = Nil /\ p'.err # Nil /\ p'.file = p.file ]_vars
    /\ [](Returned =>
            LET n == NameTurns(Input) IN
            /\ n <= 1
            /\ ret[1].err = Nil
               => /\ n = 1
                  /\ ret[1].doc[1].Name = Strip(DropNewlines(Input)[2].val))

(* A second module line after the first was rejected, the name kept. *)
C18_Witness ==
    /\ Returned
    /\ Kinds(Input) = <<"module", "string", "newline", "module">>
    /\ p.file.Name = <<"a">>
    /\ ret[1].doc = Nil

(* C19: for all three verbs the token after the verb keyword must be '('  *)
(* or the entry's string: anything else, a newline included, ends the      *)
(* parse with the error "expect package declaration" on it.  A blank line  *)
(* put into an input that parses is accepted at the start of a line only,  *)
(* never after a verb keyword nor inside a line.                           *)
C19_InlineStrict ==
    /\ [][ (In({"parsePkgList", "parsePkgMapList"}) /\
            Pulled[1].kind \notin {"(", "string"})
           => /\ Len(Pulled) = 1
              /\ state' = Nil
              /\ p'.err = Some(Errorf("package declaration", Pulled[1]))
              /\ p'.file = p.file ]_vars
    /\ []((Returned /\ ret[1].err = Nil) =>
            \A i \in 2..Len(Input) :
              LET r == Parse(InsertAt(Input, i, tokenNewline)) IN
              /\ Input[i - 1].kind \in VerbKinds
                 => r = [doc |-> Nil,
                         err |-> Some(Errorf("package declaration", tokenNewline))]
              /\ r.err = Nil
                 => Input[i - 1].kind = "newline" \/ Input[i].kind = "newline")

(* A blank line between exclude and its inline entry was rejected. *)
C19_Witness ==
    /\ Returned
    /\ ret[1] = [doc |-> Nil,
                 err |-> Some(Errorf("package declaration", tokenNewline))]
    /\ Len(Input) > 1
    /\ Input[Len(Input) - 1].kind = "exclude"

(* C20: the tokens are pulled in one forward pass: every token lexed has   *)
(* been pulled, once, the position never goes back and the tokens pulled   *)
(* stay as they are; end-of-input is the last token pulled, and no parse   *)
(* function runs after it.                                                 *)
C20_ForwardPass ==
    /\ [](p.lexer.pos = Len(p.lexer.input))
    /\ [][ /\ p'.lexer.pos >= p.lexer.pos
           /\ IsPrefix(p.lexer.input, p'.lexer.input)
           /\ Turn => p'.lexer.pos = p.lexer.pos + Len(Pulled) ]_vars
    /\ [](\A i \in 1..Len(Input) :
            Input[i].kind = "EOF" => i = Len(Input) /\ state = Nil)

(* A parse of twelve tokens or more pulled its one end-of-input last. *)
C20_Witness ==
    /\ Returned
    /\ ret[1].err = Nil
    /\ Len(Input) >= 12
    /\ p.lexer.pos = Len(Input)
    /\ Cardinality({ i \in 1..Len(Input) : Input[i].kind = "EOF" }) = 1
    /\ Input[Len(Input)] = tokenEOF

====
